---------------------------- MODULE Spec2Model ----------------------------
(***************************************************************************)
(* Model of swu2influx: a poller that reads the vehicle positions of       *)
(* echtzeit.swu.de and writes one InfluxDB point per marker.               *)
(*                                                                         *)
(* The repository holds three generations of the same script:              *)
(*   "v1"  src/swu2influx.js lines 1-185    XML feed, write errors logged  *)
(*   "v2"  src/swu2influx.js lines 265-468  XML feed, write errors exit    *)
(*   "v3"  src/unnamed/part_000             JSON feed, every error exits   *)
(*                                                                         *)
(* JavaScript strings are sequences of one-character strings, so that the  *)
(* regular expression, parseInt and parseFloat can be computed.  The value *)
(* undefined is the one-element sequence Undefined, which no string of     *)
(* characters equals.                                                      *)
(***************************************************************************)
EXTENDS Integers, Sequences, FiniteSets, TLC

VARIABLES
    version,        \* which generation of the script runs
    pc,             \* position of main(): the await it is suspended in
    cycle,          \* number of the current iteration of while (true)
    dbNames,        \* what getDatabaseNames gave ("listed"/"absent"/"error")
    created,        \* number of createDatabase calls
    gets,           \* landing-page GETs issued in the current cycle
    html,           \* htmlString: what the GET of the current cycle gave
    posts,          \* form bodies of the POSTs issued in the current cycle
    ids,            \* result of parseIds in the current cycle
    body,           \* xml / rawJson: what the POST of the current cycle gave
    markers,        \* decoded markers of the current cycle
    writes,         \* writePoints calls: [cycle, idx, tags, fields, status]
    log,            \* console messages since the current cycle began
    exitCode,       \* argument of process.exit, -1 while running
    schedule,       \* argument of convertScheduleStringToSeconds
    form,           \* the parts schedule was put together from, if any
    delayInSeconds, \* its result: [threw, value]
    ordinate,       \* argument and loop variable of fixLocation
    ordinateIn,     \* the parsed argument of fixLocation, kept for reference
    iterations,     \* times the body of fixLocation's loop has run
    marker,         \* argument of the map callback
    point,          \* the point the map callback hands to writePoints
    fpc             \* position inside the function under study

vars == <<version, pc, cycle, dbNames, created, gets, html, posts, ids, body,
          markers, writes, log, exitCode, schedule, form, delayInSeconds,
          ordinate, ordinateIn, iterations, marker, point, fpc>>

loopVars == <<version, pc, cycle, dbNames, created, gets, html, posts, ids,
              body, markers, writes, log, exitCode>>

scheduleVars == <<schedule, form, delayInSeconds>>

fixVars == <<ordinate, ordinateIn, iterations>>

markerVars == <<marker, point>>

-----------------------------------------------------------------------------
(* Bounds *)

\* longest batch of markers a payload carries in the poll loop
MaxMarkers == 2

\* cycles of while (true) that are explored
MaxCycles == 2

\* largest coordinate fed to fixLocation, in thousandths of a degree
MaxOrdinate == 12000

\* loop iterations of fixLocation after which a run counts as not ending
MaxIter == 6

-----------------------------------------------------------------------------
(* JavaScript values *)

Undefined == <<"undefined">>

Str(v) == IF v = Undefined
          THEN <<"u", "n", "d", "e", "f", "i", "n", "e", "d">>
          ELSE v

DigitChars == {"0", "1", "2", "3", "4", "5", "6", "7", "8", "9"}

Digits == <<"0", "1", "2", "3", "4", "5", "6", "7", "8", "9">>

DigitVal(c) == (CHOOSE i \in 1..10 : Digits[i] = c) - 1

\* the characters \s matches, as far as the model's alphabet has them
WhiteSpace == {" ", "\t", "\n", "\r"}

\* the characters after which ^ matches under the m flag
LineTerminators == {"\n", "\r"}

Min(S) == CHOOSE x \in S : \A y \in S : x <= y

\* marker.key: undefined when the marker has no such property
Get(m, key) == IF key \in DOMAIN m THEN m[key] ELSE Undefined

\* String.prototype.startsWith
startsWith(s, prefix) ==
    /\ Len(s) >= Len(prefix)
    /\ \A i \in 1..Len(prefix) : s[i] = prefix[i]

\* value of a non-empty sequence of decimal digits
RECURSIVE DecimalValue(_)
DecimalValue(ds) ==
    IF ds = <<>> THEN 0
    ELSE DecimalValue(SubSeq(ds, 1, Len(ds) - 1)) * 10 + DigitVal(ds[Len(ds)])

\* longest prefix of s, from position i, made of characters of S
RECURSIVE TakeWhile(_, _, _)
TakeWhile(s, i, S) ==
    IF i <= Len(s) /\ s[i] \in S
    THEN <<s[i]>> \o TakeWhile(s, i + 1, S)
    ELSE <<>>

\* first position of s, from i, that holds no white space
RECURSIVE SkipWhiteSpace(_, _)
SkipWhiteSpace(s, i) ==
    IF i <= Len(s) /\ s[i] \in WhiteSpace
    THEN SkipWhiteSpace(s, i + 1)
    ELSE i

NaN == [nan |-> TRUE, n |-> 0]

Num(n) == [nan |-> FALSE, n |-> n]

\* parseInt(v) and parseInt(v, 10) on decimal input: leading white space,
\* an optional sign, then the longest run of digits; NaN without a digit.
\* (Hexadecimal "0x" input of the radix-less form is outside the alphabet.)
parseInt(v) ==
    LET s == Str(v)
        i == SkipWhiteSpace(s, 1)
        neg == i <= Len(s) /\ s[i] = "-"
        j == IF i <= Len(s) /\ s[i] \in {"+", "-"} THEN i + 1 ELSE i
        ds == TakeWhile(s, j, DigitChars)
    IN  IF ds = <<>> THEN NaN
        ELSE Num(IF neg THEN 0 - DecimalValue(ds) ELSE DecimalValue(ds))

-----------------------------------------------------------------------------
(* convertScheduleStringToSeconds *)

NoMatch == [matched |-> FALSE, sign |-> Undefined, g2 |-> <<>>, g3 |-> <<>>]

\* /(\+|\-)?\s?(\d{2})\:(\d{2})/ tried at position i.  Both optional parts
\* are greedy; giving one back never helps, because the character it took
\* is no digit, so the greedy attempt is the only one that can succeed.
MatchAt(s, i) ==
    LET hasSign == i <= Len(s) /\ s[i] \in {"+", "-"}
        j == IF hasSign THEN i + 1 ELSE i
        hasWs == j <= Len(s) /\ s[j] \in WhiteSpace
        k == IF hasWs THEN j + 1 ELSE j
        ok == /\ k + 4 <= Len(s)
              /\ s[k] \in DigitChars
              /\ s[k + 1] \in DigitChars
              /\ s[k + 2] = ":"
              /\ s[k + 3] \in DigitChars
              /\ s[k + 4] \in DigitChars
    IN  IF ok
        THEN [matched |-> TRUE,
              sign |-> IF hasSign THEN <<s[i]>> ELSE Undefined,
              g2 |-> <<s[k], s[k + 1]>>,
              g3 |-> <<s[k + 3], s[k + 4]>>]
        ELSE NoMatch

\* regex.exec(schedule) of a fresh /^...$/gm object: the leftmost match
\* that starts at the beginning of the input or of a line
RegexExec(v) ==
    LET s == Str(v)
        starts == {i \in 1..(Len(s) + 1) :
                      /\ i = 1 \/ s[i - 1] \in LineTerminators
                      /\ MatchAt(s, i).matched}
    IN  IF starts = {} THEN NoMatch ELSE MatchAt(s, Min(starts))

Returned(n) == [threw |-> FALSE, value |-> n]

Threw == [threw |-> TRUE, value |-> 0]

\* DelayOfMatch with the sign of the match ignored
DelayOfMatchUnsigned(matches) ==
    parseInt(matches.g3).n + parseInt(matches.g2).n * 60

\* the arithmetic all three generations share, after a match
DelayOfMatch(matches) ==
    LET seconds == parseInt(matches.g3).n
        minutes == parseInt(matches.g2).n * 60
        sum == seconds + minutes
    IN  IF matches.sign = <<"-">> THEN sum * (0 - 1) ELSE sum

\* src/unnamed/part_000
convertScheduleStringToSeconds(sched) ==
    LET matches == RegexExec(sched)
    IN  IF ~matches.matched
        THEN Returned(0)
        ELSE Returned(DelayOfMatch(matches))

\* src/swu2influx.js, first script: schedule.startsWith throws on
\* undefined, matches.length throws on null
convertScheduleStringToSecondsV1(sched) ==
    IF sched = Undefined THEN Threw
    ELSE IF startsWith(sched, <<"a", "b", ":">>) THEN Returned(0)
    ELSE LET matches == RegexExec(sched)
         IN  IF ~matches.matched
             THEN Threw
             ELSE Returned(DelayOfMatch(matches))

\* src/swu2influx.js, second script: the same body
convertScheduleStringToSecondsV2(sched) ==
    IF sched = Undefined THEN Threw
    ELSE IF startsWith(sched, <<"a", "b", ":">>) THEN Returned(0)
    ELSE LET matches == RegexExec(sched)
         IN  IF ~matches.matched
             THEN Threw
             ELSE Returned(DelayOfMatch(matches))

-----------------------------------------------------------------------------
(* Numbers.  A finite double is counted in thousandths, so that *= 10.0 is  *)
(* exact; beyond FloatMax a product is an infinity, as beyond               *)
(* Number.MAX_VALUE.                                                        *)

\* thousandths per unit
Scale == 1000

\* largest magnitude, in thousandths, a finite number holds
FloatMax == 100000000

FloatNaN == [kind |-> "nan", m |-> 0]

Finite(m) == [kind |-> "num", m |-> m]

NegInfinity == [kind |-> "-inf", m |-> 0]

PosInfinity == [kind |-> "inf", m |-> 0]

\* the first three digits of a fraction, as thousandths
FractionValue(ds) ==
    LET d(i) == IF i <= Len(ds) THEN DigitVal(ds[i]) ELSE 0
    IN  d(1) * 100 + d(2) * 10 + d(3)

\* parseFloat: leading white space, an optional sign, digits with an
\* optional fraction; what follows is ignored; NaN without any digit.
\* (Exponents and the word Infinity are outside the alphabet.)
parseFloat(v) ==
    LET s == Str(v)
        i == SkipWhiteSpace(s, 1)
        neg == i <= Len(s) /\ s[i] = "-"
        j == IF i <= Len(s) /\ s[i] \in {"+", "-"} THEN i + 1 ELSE i
        ip == TakeWhile(s, j, DigitChars)
        k == j + Len(ip)
        fp == IF k <= Len(s) /\ s[k] = "."
              THEN TakeWhile(s, k + 1, DigitChars)
              ELSE <<>>
        mag == DecimalValue(ip) * Scale + FractionValue(fp)
    IN  IF ip = <<>> /\ fp = <<>> THEN FloatNaN
        ELSE Finite(IF neg THEN 0 - mag ELSE mag)

\* Math.round: the nearest integer, halves towards +Infinity
MathRound(m) == (m + (Scale \div 2)) \div Scale

\* ordinate *= 10.0
Times10(o) ==
    IF o.kind # "num" THEN o
    ELSE IF o.m * 10 > FloatMax THEN PosInfinity
    ELSE IF o.m * 10 < 0 - FloatMax THEN NegInfinity
    ELSE Finite(o.m * 10)

-----------------------------------------------------------------------------
(* fixLocation *)

\* FixLoopCond with <= in place of <
FixLoopCondInclusive(o) ==
    \/ o.kind = "num" /\ MathRound(o.m) <= 8
    \/ o.kind = "-inf"

\* Math.round(ordinate) < 8.0
FixLoopCond(o) ==
    \/ o.kind = "num" /\ MathRound(o.m) < 8
    \/ o.kind = "-inf"

\* the while loop, given up after fuel iterations
RECURSIVE FixLoop(_, _)
FixLoop(o, fuel) ==
    IF ~FixLoopCond(o) THEN [hang |-> FALSE, value |-> o]
    ELSE IF fuel = 0 THEN [hang |-> TRUE, value |-> o]
    ELSE FixLoop(Times10(o), fuel - 1)

fixLocation(v) ==
    LET o == parseFloat(v)
    IN  IF o.kind # "nan"
        THEN FixLoop(o, MaxIter)
        ELSE [hang |-> FALSE, value |-> o]

-----------------------------------------------------------------------------
(* translateVehicleType *)

StrStrab == <<"S", "t", "r", "a", "b">>

StrBus == <<"B", "u", "s">>

StrSchienenschleifzug ==
    <<"S", "c", "h", "i", "e", "n", "e", "n", "s", "c", "h", "l", "e", "i",
      "f", "z", "u", "g">>

\* translateVehicleType without the case of the rail grinder
translateVehicleTypeNoGrinder(type) ==
    IF type = StrStrab THEN <<"t", "r", "a", "m">>
    ELSE IF type = StrBus THEN <<"b", "u", "s">>
    ELSE type

translateVehicleType(type) ==
    IF type = <<"S", "t", "r", "a", "b">> THEN <<"t", "r", "a", "m">>
    ELSE IF type = <<"B", "u", "s">> THEN <<"b", "u", "s">>
    ELSE IF type = <<"S", "c", "h", "i", "e", "n", "e", "n", "s", "c", "h",
                     "l", "e", "i", "f", "z", "u", "g">>
         THEN <<"r", "a", "i", "l", "g", "r", "i", "n", "d", "e", "r">>
    ELSE type

-----------------------------------------------------------------------------
(* The callback of markers.map: from a marker to the point it writes *)

EmptyObject == [k \in {} |-> 0]

\* obj.key = value, done only under cond
SetIf(cond, key, value) == IF cond THEN key :> value ELSE EmptyObject

CallbackReturned(tags, fields) ==
    [outcome |-> "writePoints", tags |-> tags, fields |-> fields]

CallbackThrew == [outcome |-> "throw", tags |-> EmptyObject,
                  fields |-> EmptyObject]

CallbackHangs == [outcome |-> "hang", tags |-> EmptyObject,
                  fields |-> EmptyObject]

StrTrue == <<"t", "r", "u", "e">>

StrJ == <<"J">>

StrAb == <<"a", "b", ":">>

\* FlagIs with any present value counted as true
FlagIsPresent(m, key, literal) == Get(m, key) # Undefined

\* marker.key === 'literal'
FlagIs(m, key, literal) == Get(m, key) = literal

\* NumericTag with the tag set whatever parseInt gives
NumericTagAlways(m, key, tag) == tag :> parseInt(Get(m, key)).n

\* if (!isNaN(parseInt(marker.key))) tags.tag = parseInt(marker.key)
NumericTag(m, key, tag) ==
    SetIf(~parseInt(Get(m, key)).nan, tag, parseInt(Get(m, key)).n)

\* if (marker.Zielschild !== '') tags.headsign = marker.Zielschild
HeadsignTag(m) ==
    SetIf(Get(m, "Zielschild") # <<>>, "headsign", Get(m, "Zielschild"))

\* if (!marker.Abweichung.startsWith('ab:')) fields.delay = ...
DelayField(m) ==
    SetIf(~startsWith(Get(m, "Abweichung"), StrAb), "delay",
          convertScheduleStringToSeconds(Get(m, "Abweichung")).value)

\* src/unnamed/part_000: the JSON feed.  fixLocation may never return;
\* marker.Abweichung.startsWith throws when the property is missing.
MapCallbackV3(m) ==
    LET lat == fixLocation(Get(m, "lat"))
        long == fixLocation(Get(m, "lng"))
        fields == ("lat" :> lat.value) @@ ("long" :> long.value)
                  @@ DelayField(m)
        tags == ("wifi" :> FlagIs(m, "Wifi", StrTrue))
                @@ ("type" :> translateVehicleType(Get(m, "Typ")))
                @@ ("active" :> FlagIs(m, "aktiv", StrTrue))
                @@ NumericTag(m, "Fzg", "vehicle")
                @@ NumericTag(m, "Linie", "route")
                @@ NumericTag(m, "TripID", "trip")
                @@ HeadsignTag(m)
    IN  IF lat.hang \/ long.hang THEN CallbackHangs
        ELSE IF Get(m, "Abweichung") = Undefined THEN CallbackThrew
        ELSE CallbackReturned(tags, fields)

\* the fields both XML scripts write, given the result of the delay parser
XmlFields(m, delay) ==
    ("vehicle" :> Get(m, "fzg"))
    @@ ("route" :> Get(m, "linie"))
    @@ ("trip" :> Get(m, "uml"))
    @@ ("lat" :> Get(m, "lat"))
    @@ ("long" :> Get(m, "lng"))
    @@ ("ac" :> FlagIs(m, "ac", StrJ))
    @@ ("wifi" :> FlagIs(m, "wifi", StrJ))
    @@ ("delay" :> delay)
    @@ ("destination" :> Get(m, "ziel"))
    @@ ("tripPattern" :> Get(m, "fw"))
    @@ ("typ" :> Get(m, "typ"))

\* src/swu2influx.js, first script
MapCallbackV1(m) ==
    LET delay == convertScheduleStringToSecondsV1(Get(m, "schedule"))
    IN  IF delay.threw THEN CallbackThrew
        ELSE CallbackReturned(EmptyObject, XmlFields(m, delay.value))

\* src/swu2influx.js, second script
MapCallbackV2(m) ==
    LET delay == convertScheduleStringToSecondsV2(Get(m, "schedule"))
    IN  IF delay.threw THEN CallbackThrew
        ELSE CallbackReturned(EmptyObject, XmlFields(m, delay.value))

MapCallback(ver, m) ==
    CASE ver = "v1" -> MapCallbackV1(m)
      [] ver = "v2" -> MapCallbackV2(m)
      [] ver = "v3" -> MapCallbackV3(m)

-----------------------------------------------------------------------------
(* Values of the variables a specification does not use *)

Versions == {"v1", "v2", "v3"}

NoIds == [requestId |-> Undefined, stateId |-> Undefined]

\* a response that has not arrived (yet)
NotReceived == <<"not received">>

NoBody == [kind |-> "not received", list |-> <<>>]

LoopIdle ==
    /\ pc = "idle"
    /\ cycle = 0
    /\ dbNames = "unknown"
    /\ created = 0
    /\ gets = 0
    /\ html = NotReceived
    /\ posts = <<>>
    /\ ids = NoIds
    /\ body = NoBody
    /\ markers = <<>>
    /\ writes = <<>>
    /\ log = {}
    /\ exitCode = 0 - 1

NoForm == [sign |-> <<>>, space |-> <<>>, g2 |-> <<>>, g3 |-> <<>>]

ScheduleIdle ==
    /\ schedule = <<>>
    /\ form = NoForm
    /\ delayInSeconds = Returned(0)

FixIdle ==
    /\ ordinate = <<>>
    /\ ordinateIn = FloatNaN
    /\ iterations = 0

MarkerIdle ==
    /\ marker = EmptyObject
    /\ point = CallbackThrew

-----------------------------------------------------------------------------
(* convertScheduleStringToSeconds applied to one input *)

TwoDigitGroups == {<<a, b>> : a \in DigitChars, b \in DigitChars}

Signs == {<<>>, <<"+">>, <<"-">>}

Spaces == {<<>>, <<" ">>}

\* [sign][optional space]AB:CD
Build(f) == f.sign \o f.space \o f.g2 \o <<":">> \o f.g3

Forms == [sign : Signs, space : Spaces, g2 : TwoDigitGroups,
          g3 : TwoDigitGroups]

\* inputs that are not of that form: free text, the departure notice,
\* truncated and padded forms, several lines, and no string at all
OtherSchedules ==
    { <<"O", "l", "d", "t", "i", "m", "e", "r">>,
      <<"a", "b", ":", " ", "1", "4", ":", "0", "5">>,
      <<"a", "b", ":">>,
      <<>>,
      <<"0", ":", "0", "0">>,
      <<"0", "0", ":", "0">>,
      <<"0", "3", "3", "0">>,
      <<"+", " ", " ", "0", "3", ":", "3", "0">>,
      <<"+", "+", "0", "3", ":", "3", "0">>,
      <<" ", "+", "0", "3", ":", "3", "0">>,
      <<"x", "0", "3", ":", "3", "0">>,
      <<"+", "\t", "0", "3", ":", "3", "0", " ", "m", "i", "n">>,
      <<"O", "l", "d", "\n", "0", "0", ":", "0", "5">>,
      <<"a", "b", ":", " ", "x", "\n", "-", "0", "1", ":", "0", "0">>,
      Undefined }

InitSchedule ==
    /\ version \in Versions
    /\ \/ /\ form \in Forms
          /\ schedule = Build(form)
       \/ /\ form = NoForm
          /\ schedule \in OtherSchedules
    /\ delayInSeconds = Returned(0)
    /\ fpc = "convert:call"
    /\ LoopIdle
    /\ FixIdle
    /\ MarkerIdle

ConvertV1 ==
    /\ fpc = "convert:call"
    /\ version = "v1"
    /\ delayInSeconds' = convertScheduleStringToSecondsV1(schedule)
    /\ fpc' = "convert:return"
    /\ UNCHANGED <<loopVars, schedule, form, fixVars, markerVars>>

ConvertV2 ==
    /\ fpc = "convert:call"
    /\ version = "v2"
    /\ delayInSeconds' = convertScheduleStringToSecondsV2(schedule)
    /\ fpc' = "convert:return"
    /\ UNCHANGED <<loopVars, schedule, form, fixVars, markerVars>>

ConvertV3 ==
    /\ fpc = "convert:call"
    /\ version = "v3"
    /\ delayInSeconds' = convertScheduleStringToSeconds(schedule)
    /\ fpc' = "convert:return"
    /\ UNCHANGED <<loopVars, schedule, form, fixVars, markerVars>>

NextSchedule == ConvertV1 \/ ConvertV2 \/ ConvertV3

SpecSchedule == InitSchedule /\ [][NextSchedule]_vars

-----------------------------------------------------------------------------
(* fixLocation, one loop iteration at a time *)

\* the decimal digits of a natural number
RECURSIVE NatChars(_)
NatChars(n) ==
    IF n < 10 THEN <<Digits[n + 1]>>
    ELSE NatChars(n \div 10) \o <<Digits[(n % 10) + 1]>>

\* a number of thousandths as the feed prints it: [-]d.ddd
Decimal(m) ==
    LET a == IF m < 0 THEN 0 - m ELSE m
        f == a % Scale
    IN  (IF m < 0 THEN <<"-">> ELSE <<>>)
        \o NatChars(a \div Scale) \o <<".">>
        \o <<Digits[(f \div 100) + 1], Digits[((f \div 10) % 10) + 1],
             Digits[(f % 10) + 1]>>

\* coordinates that are zero or negative
NonPositiveOrdinates == {0, 0 - 1, 0 - 500, 0 - 7499, 0 - 7500, 0 - 7501,
                         0 - 8000, 0 - 48400}

\* inputs that are no number
NonNumericOrdinates == {<<"a", "b", "c">>, <<>>, <<".">>, <<"-">>, Undefined}

OrdinateInputs ==
    {Decimal(m) : m \in 1..MaxOrdinate}
    \cup {Decimal(m) : m \in NonPositiveOrdinates}
    \cup {<<"4", "8">>, <<" ", "9", ".", "9", "5", "x">>, <<".", "5">>}
    \cup NonNumericOrdinates

InitFix ==
    /\ version = "v3"
    /\ ordinate \in OrdinateInputs
    /\ ordinateIn = FloatNaN
    /\ iterations = 0
    /\ fpc = "fix:call"
    /\ LoopIdle
    /\ ScheduleIdle
    /\ MarkerIdle

\* ordinate = parseFloat(ordinate); if (!Number.isNaN(ordinate))
FixParse ==
    /\ fpc = "fix:call"
    /\ ordinate' = parseFloat(ordinate)
    /\ ordinateIn' = parseFloat(ordinate)
    /\ fpc' = IF parseFloat(ordinate).kind # "nan"
              THEN "fix:while" ELSE "fix:return"
    /\ UNCHANGED <<loopVars, scheduleVars, iterations, markerVars>>

\* one run of the loop body; the count of runs stops at MaxIter + 1
FixWhileBody ==
    /\ fpc = "fix:while"
    /\ FixLoopCond(ordinate)
    /\ ordinate' = Times10(ordinate)
    /\ iterations' = IF iterations <= MaxIter
                     THEN iterations + 1 ELSE iterations
    /\ UNCHANGED <<loopVars, scheduleVars, ordinateIn, markerVars, fpc>>

FixWhileExit ==
    /\ fpc = "fix:while"
    /\ ~FixLoopCond(ordinate)
    /\ fpc' = "fix:return"
    /\ UNCHANGED <<loopVars, scheduleVars, fixVars, markerVars>>

NextFix == FixParse \/ FixWhileBody \/ FixWhileExit

SpecFix == InitFix /\ [][NextFix]_vars

-----------------------------------------------------------------------------
(* The map callback applied to one marker *)

\* a marker from a record: a property whose value is undefined is missing
MkMarker(rec) ==
    [k \in {x \in DOMAIN rec : rec[x] # Undefined} |-> rec[k]]

ScheduleSamples ==
    { <<"+", " ", "0", "3", ":", "3", "0">>,
      <<"-", " ", "0", "3", ":", "2", "0">>,
      <<"0", "0", ":", "0", "0">>,
      <<"a", "b", ":", " ", "1", "4", ":", "0", "5">>,
      <<"a", "b", ":">>,
      <<"O", "l", "d", "t", "i", "m", "e", "r">>,
      <<>>,
      Undefined }

StrUlm == <<"U", "l", "m">>

\* the markers the callback of a script is tried on: every combination of
\* a few values of each property it reads
SampleMarkers(ver) ==
    IF ver = "v3"
    THEN { MkMarker([lat |-> la, lng |-> lo, Abweichung |-> ab, Wifi |-> wi,
                     Typ |-> ty, aktiv |-> ak, Fzg |-> fz, Linie |-> li,
                     TripID |-> tr, Zielschild |-> zs]) :
             la \in {<<"4", ".", "8", "4">>, <<"a", "b", "c">>, <<"0">>},
             lo \in {<<"9", ".", "9", "9">>, Undefined},
             ab \in ScheduleSamples,
             wi \in {StrTrue, StrJ, Undefined},
             ty \in {StrStrab, StrBus, StrSchienenschleifzug,
                     <<"P", "k", "w">>, Undefined},
             ak \in {StrTrue, <<"1">>, Undefined},
             fz \in {<<"1", "2">>, <<"a", "b", "c">>, <<"1", "2", "a", "b">>,
                     Undefined},
             li \in {<<"5">>, <<"E">>},
             tr \in {<<"7">>, <<>>},
             zs \in {StrUlm, <<>>, <<" ">>, Undefined} }
    ELSE { MkMarker([fzg |-> fz, linie |-> <<"5">>, uml |-> <<"7">>,
                     lat |-> la, lng |-> <<"9", ".", "9", "9">>, ac |-> ac,
                     wifi |-> wi, schedule |-> sc, ziel |-> zi,
                     fw |-> <<"1">>, typ |-> ty]) :
             fz \in {<<"1", "2">>, Undefined},
             la \in {<<"4", "8", ".", "4">>, <<"a", "b", "c">>},
             ac \in {StrJ, <<"N">>, Undefined},
             wi \in {StrJ, StrTrue, Undefined},
             sc \in ScheduleSamples,
             zi \in {StrUlm, <<>>, Undefined},
             ty \in {<<"B", "u", "s">>, Undefined} }

InitMarker ==
    /\ version \in Versions
    /\ marker \in SampleMarkers(version)
    /\ point = CallbackThrew
    /\ fpc = "map:call"
    /\ LoopIdle
    /\ ScheduleIdle
    /\ FixIdle

\* one call of the callback of markers.map
Normalize ==
    /\ fpc = "map:call"
    /\ point' = MapCallback(version, marker)
    /\ fpc' = "map:return"
    /\ UNCHANGED <<loopVars, scheduleVars, fixVars, marker>>

NextMarker == Normalize

SpecMarker == InitMarker /\ [][NextMarker]_vars

-----------------------------------------------------------------------------
(* main(): the start-up and the poll loop *)

\* a rejected request
RequestError == <<"RequestError">>

Null == <<"null">>

StrRequest == <<"r", "e", "q", "u", "e", "s", "t">>

StrState == <<"s", "t", "a", "t", "e">>

\* s holds prefix from position i on
startsWithAt(s, i, prefix) ==
    /\ i + Len(prefix) - 1 <= Len(s)
    /\ \A k \in 1..Len(prefix) : s[i + k - 1] = prefix[k]

\* /var <name> = (\d+);/gm.exec(s) of a fresh regex object, then [1]: the
\* digits of the leftmost match, Null when exec gives null.  \d+ is greedy
\* and giving a digit back never helps, because ; must follow the digits.
ExecAssignment(s, name) ==
    LET prefix == <<"v", "a", "r", " ">> \o name \o <<" ", "=", " ">>
        digitsAt(i) == TakeWhile(s, i + Len(prefix), DigitChars)
        starts == {i \in 1..Len(s) :
                      /\ startsWithAt(s, i, prefix)
                      /\ digitsAt(i) # <<>>
                      /\ i + Len(prefix) + Len(digitsAt(i)) <= Len(s)
                      /\ s[i + Len(prefix) + Len(digitsAt(i))] = ";"}
    IN  IF starts = {} THEN Null ELSE digitsAt(Min(starts))

\* parseIds with a token that is not found left undefined
parseIdsLenient(htmlString) ==
    LET requestId == ExecAssignment(htmlString, StrRequest)
        stateId == ExecAssignment(htmlString, StrState)
    IN  [threw |-> FALSE,
         requestId |-> IF requestId = Null THEN Undefined ELSE requestId,
         stateId |-> IF stateId = Null THEN Undefined ELSE stateId]

\* regexRequest.exec(htmlString)[1] and regexState.exec(htmlString)[1]:
\* reading [1] of null throws
parseIds(htmlString) ==
    LET requestId == ExecAssignment(htmlString, StrRequest)
        stateId == ExecAssignment(htmlString, StrState)
    IN  IF requestId = Null \/ stateId = Null
        THEN [threw |-> TRUE, requestId |-> Undefined, stateId |-> Undefined]
        ELSE [threw |-> FALSE, requestId |-> requestId, stateId |-> stateId]

\* what a landing page assigns to request and to state: Undefined when it
\* has no such assignment, else the text between "= " and ";"
PageForms == [request : {Undefined, <<"1", "2", "3">>, <<"7">>, <<"1", "a">>},
              state : {Undefined, <<"4", "5", "6">>, <<>>}]

Assignment(name, value) ==
    IF value = Undefined THEN <<>>
    ELSE <<"v", "a", "r", " ">> \o name \o <<" ", "=", " ">> \o value
             \o <<";", "\n">>

\* the text of the landing page
Render(f) ==
    <<"<", "s", "c", "r", "i", "p", "t", ">", "\n">>
        \o Assignment(StrRequest, f.request)
        \o Assignment(StrState, f.state)
        \o <<"<", "/", "s", "c", "r", "i", "p", "t", ">">>

\* the landing pages rp(basePath) may resolve to
Pages == {Render(f) : f \in PageForms}

\* callApi with the two tokens in each other's place
callApiSwapped(stateId, requestId) ==
    [request |-> stateId, state |-> requestId]

\* callApi(stateId, requestId): the form body it posts
callApi(stateId, requestId) == [request |-> requestId, state |-> stateId]

JsonGood ==
    MkMarker([lat |-> <<"4", ".", "8", "4">>, lng |-> <<"9", ".", "9", "9">>,
              Abweichung |-> <<"+", " ", "0", "3", ":", "3", "0">>,
              Wifi |-> StrTrue, Typ |-> <<"S", "t", "r", "a", "b">>,
              aktiv |-> StrTrue, Fzg |-> <<"1", "2">>, Linie |-> <<"5">>,
              TripID |-> <<"7">>, Zielschild |-> StrUlm])

\* markers of the JSON feed: a regular one, one that has not departed, one
\* with free text and broken fields, one without status, one at latitude 0
PoolJson ==
    { JsonGood,
      [JsonGood EXCEPT !["Abweichung"] =
          <<"a", "b", ":", " ", "1", "4", ":", "0", "5">>,
          !["Zielschild"] = <<>>],
      [JsonGood EXCEPT !["Abweichung"] =
          <<"O", "l", "d", "t", "i", "m", "e", "r">>,
          !["lat"] = <<"a", "b", "c">>, !["Fzg"] = <<"a", "b", "c">>],
      MkMarker([lat |-> <<"4", "8", ".", "4">>, lng |-> <<"9", ".", "9", "9">>,
                Typ |-> <<"B", "u", "s">>, Fzg |-> <<"3", "4">>]),
      [JsonGood EXCEPT !["lat"] = <<"0">>] }

XmlGood ==
    MkMarker([fzg |-> <<"1", "2">>, linie |-> <<"5">>, uml |-> <<"7">>,
              lat |-> <<"4", "8", ".", "4">>, lng |-> <<"9", ".", "9", "9">>,
              ac |-> StrJ, wifi |-> StrJ,
              schedule |-> <<"+", " ", "0", "3", ":", "3", "0">>,
              ziel |-> StrUlm, fw |-> <<"1">>, typ |-> <<"B", "u", "s">>])

\* markers of the XML feed: a regular one, one that has not departed, one
\* with free text, one without status, one with a broken latitude
PoolXml ==
    { XmlGood,
      [XmlGood EXCEPT !["schedule"] =
          <<"a", "b", ":", " ", "1", "4", ":", "0", "5">>],
      [XmlGood EXCEPT !["schedule"] =
          <<"O", "l", "d", "t", "i", "m", "e", "r">>],
      MkMarker([fzg |-> <<"3", "4">>, lat |-> <<"4", "8", ".", "4">>,
                lng |-> <<"9", ".", "9", "9">>]),
      [XmlGood EXCEPT !["lat"] = <<"a", "b", "c">>] }

Pool(ver) == IF ver = "v3" THEN PoolJson ELSE PoolXml

\* sequences of at most n elements of S
SeqUpTo(S, n) == UNION {[1..k -> S] : k \in 0..n}

\* bodies the data endpoint answers with: text that does not parse, an
\* XML document without a markers element, a document that parses to one
\* marker object instead of an array of them, and an array of markers
Payloads(ver) ==
    {[kind |-> "invalid", list |-> <<>>]}
    \cup (IF ver = "v3" THEN {}
          ELSE {[kind |-> "nocollection", list |-> <<>>]})
    \cup {[kind |-> "single",
           list |-> <<IF ver = "v3" THEN JsonGood ELSE XmlGood>>]}
    \cup {[kind |-> "markers", list |-> l] : l \in SeqUpTo(Pool(ver), MaxMarkers)}

DecodeThrew == [threw |-> TRUE, isArray |-> FALSE, list |-> <<>>]

\* decode with a lone marker object wrapped into an array
decodeWrapping(ver, payload) ==
    CASE payload.kind \in {"markers", "single"} ->
            [threw |-> FALSE, isArray |-> TRUE, list |-> payload.list]
      [] payload.kind = "nocollection" -> DecodeThrew
      [] payload.kind = "invalid" ->
            IF ver = "v3" THEN DecodeThrew
            ELSE [threw |-> FALSE, isArray |-> FALSE, list |-> <<>>]

\* parseXml(xml) and JSON.parse(rawJson): the value of markers, unless the
\* call throws.  JSON.parse throws on text that is no JSON; parseXml gives
\* undefined when validate fails and throws when jsonObj.markers is
\* undefined.
decode(ver, payload) ==
    CASE payload.kind = "markers" ->
            [threw |-> FALSE, isArray |-> TRUE, list |-> payload.list]
      [] payload.kind = "single" ->
            [threw |-> FALSE, isArray |-> FALSE, list |-> payload.list]
      [] payload.kind = "nocollection" -> DecodeThrew
      [] payload.kind = "invalid" ->
            IF ver = "v3" THEN DecodeThrew
            ELSE [threw |-> FALSE, isArray |-> FALSE, list |-> <<>>]

\* what the callback gives for each marker of the array, in order
MapResults(ver, list) == [i \in 1..Len(list) |-> MapCallback(ver, list[i])]

\* the index of the first marker whose callback does not return, or one
\* past the end
FirstBad(results) ==
    LET bad == {i \in 1..Len(results) : results[i].outcome # "writePoints"}
    IN  IF bad = {} THEN Len(results) + 1 ELSE Min(bad)

\* how markers.map(...) ends
MapOutcome(results) ==
    LET k == FirstBad(results)
    IN  IF k > Len(results) THEN "returned" ELSE results[k].outcome

\* IssuedWrites with the batch written back to front
IssuedWritesReversed(c, results) ==
    [i \in 1..(FirstBad(results) - 1) |->
        [cycle |-> c, idx |-> i,
         tags |-> results[FirstBad(results) - i].tags,
         fields |-> results[FirstBad(results) - i].fields,
         status |-> "pending"]]

\* the writePoints calls markers.map makes before it ends
IssuedWrites(c, results) ==
    [i \in 1..(FirstBad(results) - 1) |->
        [cycle |-> c, idx |-> i,
         tags |-> results[i].tags,
         fields |-> results[i].fields,
         status |-> "pending"]]

\* CycleErrorExits with every script ending the process
CycleErrorExitsAlways(ver) == TRUE

\* the catch block of the cycle: only part_000 ends the process
CycleErrorExits(ver) == ver = "v3"

\* WriteErrorExits with the first script ending the process too
WriteErrorExitsAlways(ver) == TRUE

\* WriteErrorExits with no script ending the process
WriteErrorExitsNever(ver) == FALSE

\* WriteErrorExits with part_000 only logging the failure
WriteErrorExitsOnlyV2(ver) == ver = "v2"

\* the catch handler of writePoints: all but the first script end the process
WriteErrorExits(ver) == ver \in {"v2", "v3"}

Init ==
    /\ version \in Versions
    /\ pc = "getDatabaseNames"
    /\ cycle = 0
    /\ dbNames = "unknown"
    /\ created = 0
    /\ gets = 0
    /\ html = NotReceived
    /\ posts = <<>>
    /\ ids = NoIds
    /\ body = NoBody
    /\ markers = <<>>
    /\ writes = <<>>
    /\ log = {}
    /\ exitCode = 0 - 1
    /\ fpc = "main"
    /\ ScheduleIdle
    /\ FixIdle
    /\ MarkerIdle

pureVars == <<scheduleVars, fixVars, markerVars, fpc>>

\* the writes still outstanding when a cycle begins; what they carry is no
\* longer looked at and is dropped
Outstanding(ws) ==
    LET pending == SelectSeq(ws, LAMBDA w : w.status = "pending")
    IN  [i \in 1..Len(pending) |->
            [pending[i] EXCEPT !.tags = EmptyObject, !.fields = EmptyObject]]

\* ws without its element at position i
Remove(ws, i) == SubSeq(ws, 1, i - 1) \o SubSeq(ws, i + 1, Len(ws))

\* the first statements of the body of while (true), up to await rp(basePath)
StartCycle ==
    /\ cycle' = cycle + 1
    /\ gets' = 1
    /\ html' = NotReceived
    /\ posts' = <<>>
    /\ ids' = NoIds
    /\ body' = NoBody
    /\ markers' = <<>>
    /\ writes' = Outstanding(writes)
    /\ log' = IF version = "v3" THEN {"Job started"} ELSE {}
    /\ pc' = "rp"

\* catch (e) of the cycle, then await sleep(...)
CatchCycle ==
    IF CycleErrorExits(version)
    THEN /\ pc' = "exit"
         /\ exitCode' = 1
         /\ log' = log \cup {"error"}
    ELSE /\ pc' = "sleep"
         /\ exitCode' = exitCode
         /\ log' = log \cup {"ERROR: "}

\* DatabaseNames with a failed check only logged
DatabaseNamesNoExit ==
    /\ pc = "getDatabaseNames"
    /\ \E r \in {"listed", "absent", "error"} :
          /\ dbNames' = r
          /\ IF r = "absent"
             THEN /\ pc' = "createDatabase"
                  /\ created' = created + 1
                  /\ UNCHANGED <<cycle, gets, html, posts, ids, body,
                                 markers, writes, log, exitCode>>
             ELSE /\ StartCycle
                  /\ UNCHANGED <<created, exitCode>>
    /\ UNCHANGED <<version, pureVars>>

\* influx.getDatabaseNames() settles
DatabaseNames ==
    /\ pc = "getDatabaseNames"
    /\ \E r \in {"listed", "absent", "error"} :
          /\ dbNames' = r
          /\ CASE r = "error" ->
                    /\ IF version = "v3"
                       THEN pc' = "exit" /\ exitCode' = 1
                       ELSE pc' = "rejected" /\ exitCode' = exitCode
                    /\ UNCHANGED <<cycle, created, gets, html, posts, ids,
                                   body, markers, writes, log>>
               [] r = "absent" ->
                    /\ pc' = "createDatabase"
                    /\ created' = created + 1
                    /\ UNCHANGED <<cycle, gets, html, posts, ids, body,
                                   markers, writes, log, exitCode>>
               [] r = "listed" ->
                    /\ StartCycle
                    /\ UNCHANGED <<created, exitCode>>
    /\ UNCHANGED <<version, pureVars>>

\* influx.createDatabase(dataBaseName) settles; its rejection is caught
\* nowhere
DatabaseCreated ==
    /\ pc = "createDatabase"
    /\ \E ok \in BOOLEAN :
          IF ok
          THEN StartCycle
          ELSE /\ pc' = "rejected"
               /\ UNCHANGED <<cycle, gets, html, posts, ids, body, markers,
                               writes, log>>
    /\ UNCHANGED <<version, dbNames, created, exitCode, pureVars>>

\* rp(basePath) settles: parseIds, then callApi
LandingPage ==
    /\ pc = "rp"
    /\ \/ /\ html' = RequestError
          /\ CatchCycle
          /\ UNCHANGED <<ids, posts>>
       \/ \E htmlString \in Pages :
             LET parsed == parseIds(htmlString)
             IN  /\ html' = htmlString
                 /\ IF parsed.threw
                    THEN /\ CatchCycle
                         /\ UNCHANGED <<ids, posts>>
                    ELSE /\ ids' = [requestId |-> parsed.requestId,
                                    stateId |-> parsed.stateId]
                         /\ posts' = Append(posts,
                                        callApi(parsed.stateId,
                                                parsed.requestId))
                         /\ pc' = "callApi"
                         /\ UNCHANGED <<log, exitCode>>
    /\ UNCHANGED <<version, cycle, dbNames, created, gets, body, markers,
                   writes, pureVars>>

\* callApi(...) settles: decode, then markers.map(...) up to
\* await Promise.all(...)
ApiResponse ==
    /\ pc = "callApi"
    /\ \/ /\ body' = [kind |-> "RequestError", list |-> <<>>]
          /\ CatchCycle
          /\ UNCHANGED <<markers, writes>>
       \/ \E payload \in Payloads(version) :
             LET decoded == decode(version, payload)
             IN  /\ body' = payload
                 /\ IF decoded.threw \/ ~decoded.isArray
                    THEN /\ CatchCycle
                         /\ UNCHANGED <<markers, writes>>
                    ELSE LET results == MapResults(version, decoded.list)
                             outcome == MapOutcome(results)
                         IN  /\ markers' = decoded.list
                             /\ writes' =
                                   writes \o IssuedWrites(cycle, results)
                             /\ IF outcome = "returned"
                                THEN /\ pc' = "Promise.all"
                                     /\ UNCHANGED <<log, exitCode>>
                                ELSE IF outcome = "throw"
                                THEN CatchCycle
                                ELSE /\ pc' = "hang"
                                     /\ UNCHANGED <<log, exitCode>>
    /\ UNCHANGED <<version, cycle, dbNames, created, gets, html, posts, ids,
                   pureVars>>

Running == pc \notin {"exit", "rejected", "hang"}

\* one writePoints promise settles; on rejection its catch handler runs.
\* A write of an earlier cycle is forgotten once it has settled.
WriteSettled ==
    /\ Running
    /\ \E i \in DOMAIN writes :
          /\ writes[i].status = "pending"
          /\ \/ /\ writes' = IF writes[i].cycle < cycle
                              THEN Remove(writes, i)
                              ELSE [writes EXCEPT ![i].status = "ok"]
                /\ UNCHANGED <<pc, log, exitCode>>
             \/ /\ writes' = IF writes[i].cycle < cycle
                              THEN Remove(writes, i)
                              ELSE [writes EXCEPT ![i].status = "failed"]
                /\ log' = log \cup {"Error saving data to InfluxDB!"}
                /\ IF WriteErrorExits(version)
                   THEN pc' = "exit" /\ exitCode' = 1
                   ELSE UNCHANGED <<pc, exitCode>>
    /\ UNCHANGED <<version, cycle, dbNames, created, gets, html, posts, ids,
                   body, markers, pureVars>>

\* AllSettled without the wait for the promises
AllSettledEarly ==
    /\ pc = "Promise.all"
    /\ log' = IF version = "v3" THEN log \cup {"Job successful"} ELSE log
    /\ pc' = "sleep"
    /\ UNCHANGED <<version, cycle, dbNames, created, gets, html, posts, ids,
                   body, markers, writes, exitCode, pureVars>>

\* Promise.all resolves once every promise of the cycle has: main goes on
\* to await sleep(...)
AllSettled ==
    /\ pc = "Promise.all"
    /\ \A i \in DOMAIN writes :
          writes[i].cycle = cycle => writes[i].status # "pending"
    /\ log' = IF version = "v3" THEN log \cup {"Job successful"} ELSE log
    /\ pc' = "sleep"
    /\ UNCHANGED <<version, cycle, dbNames, created, gets, html, posts, ids,
                   body, markers, writes, exitCode, pureVars>>

\* the timer of sleep fires: the next cycle begins
SleepElapsed ==
    /\ pc = "sleep"
    /\ cycle < MaxCycles
    /\ StartCycle
    /\ UNCHANGED <<version, dbNames, created, exitCode, pureVars>>

Next ==
    \/ DatabaseNames
    \/ DatabaseCreated
    \/ LandingPage
    \/ ApiResponse
    \/ WriteSettled
    \/ AllSettled
    \/ SleepElapsed

Spec == Init /\ [][Next]_vars

\* every request, every write and every timer settles in the end: while
\* main() or a write awaits something, one of them gets its answer
Settling == WF_vars(Next)

\* the first script of src/swu2influx.js alone, with everything settling
InitContinue == Init /\ version = "v1"

SpecContinue == InitContinue /\ [][Next]_vars /\ Settling

-----------------------------------------------------------------------------
(* Properties of convertScheduleStringToSeconds *)

\* the input begins with an optional sign, an optional single white space,
\* two digits, a colon and two digits
BeginsWithPattern(s) == MatchAt(s, 1).matched

\* C5: convertScheduleStringToSeconds returns 0, without throwing, for
\* every input string that does not begin with an optional sign, an
\* optional single white space, two digits, a colon and two digits.
C5_ZeroWithoutPattern ==
    (fpc = "convert:return" /\ schedule # Undefined
        /\ ~BeginsWithPattern(schedule))
    => delayInSeconds = Returned(0)

\* value of a group of two digits
GroupValue(g) == DigitVal(g[1]) * 10 + DigitVal(g[2])

\* CD + AB*60, negated under the sign '-'
ExpectedDelay(f) ==
    LET sum == GroupValue(f.g3) + GroupValue(f.g2) * 60
    IN  IF f.sign = <<"-">> THEN 0 - sum ELSE sum

\* C6: for every input [sign][optional space]AB:CD the function returns
\* CD + AB*60 when the sign is '+' or absent and -(CD + AB*60) when the
\* sign is '-'.
C6_DelayOfForm ==
    (fpc = "convert:return" /\ form # NoForm)
    => delayInSeconds = Returned(ExpectedDelay(form))

\* "- 03:20" has been converted by the JSON script and gave -200
C6_Witness ==
    /\ fpc = "convert:return"
    /\ version = "v3"
    /\ schedule = <<"-", " ", "0", "3", ":", "2", "0">>
    /\ form # NoForm
    /\ delayInSeconds = Returned(0 - 200)

-----------------------------------------------------------------------------
(* Properties of fixLocation *)

RECURSIVE Pow10(_)
Pow10(k) == IF k = 0 THEN 1 ELSE 10 * Pow10(k - 1)

\* C7: for 0 < v < 8 fixLocation returns v times a power of ten whose
\* rounded value is at least 8; for v >= 8 it returns v unchanged; for an
\* input that is no number it returns not-a-number without looping.
C7_FixLocation ==
    fpc = "fix:return" =>
        /\ ordinateIn.kind = "nan" =>
              ordinate.kind = "nan" /\ iterations = 0
        /\ (ordinateIn.kind = "num" /\ 0 < ordinateIn.m
                /\ ordinateIn.m < 8 * Scale) =>
              /\ ordinate.kind = "num"
              /\ \E k \in 0..MaxIter : ordinate.m = ordinateIn.m * Pow10(k)
              /\ MathRound(ordinate.m) >= 8
        /\ (ordinateIn.kind = "num" /\ ordinateIn.m >= 8 * Scale) =>
              ordinate = ordinateIn /\ iterations = 0

\* 4.84 has been scaled once, to 48.4
C7_Witness ==
    /\ fpc = "fix:return"
    /\ ordinateIn = Finite(4840)
    /\ ordinate = Finite(48400)
    /\ iterations = 1

-----------------------------------------------------------------------------
(* Properties of the map callback *)

\* the status string of a marker
StatusOf(ver, m) ==
    IF ver = "v3" THEN Get(m, "Abweichung") ELSE Get(m, "schedule")

\* the delay parser of a script
Convert(ver, sched) ==
    CASE ver = "v1" -> convertScheduleStringToSecondsV1(sched)
      [] ver = "v2" -> convertScheduleStringToSecondsV2(sched)
      [] ver = "v3" -> convertScheduleStringToSeconds(sched)

Written == fpc = "map:return" /\ point.outcome = "writePoints"

\* C4: a marker whose status string starts with 'ab:' gives a point
\* without a delay field; any other marker gives a point whose delay field
\* is convertScheduleStringToSeconds of the status string.
C4_DelayOmittedForAb ==
    Written =>
        IF startsWith(StatusOf(version, marker), StrAb)
        THEN "delay" \notin DOMAIN point.fields
        ELSE /\ "delay" \in DOMAIN point.fields
             /\ point.fields["delay"]
                  = Convert(version, StatusOf(version, marker)).value

\* a string that is empty once trimmed
IsBlank(s) == \A i \in 1..Len(s) : s[i] \in WhiteSpace

\* C8: the point carries a headsign tag only if Zielschild is present and
\* non-empty after trimming.
C8_HeadsignOnlyIfNonEmpty ==
    (Written /\ version = "v3") =>
        ("headsign" \in DOMAIN point.tags =>
            /\ Get(marker, "Zielschild") # Undefined
            /\ ~IsBlank(Get(marker, "Zielschild")))

NumericTags == {<<"vehicle", "Fzg">>, <<"route", "Linie">>,
                <<"trip", "TripID">>}

\* C9: each of the tags vehicle, route and trip is in the point if and only
\* if parseInt of the upstream field is a number, and is then that number;
\* a field that is no number costs the tag only: the callback throws for
\* no other reason than a missing status string.
C9_NumericTags ==
    (fpc = "map:return" /\ version = "v3") =>
        /\ point.outcome = "throw" => Get(marker, "Abweichung") = Undefined
        /\ point.outcome = "writePoints" =>
              \A t \in NumericTags :
                 LET n == parseInt(Get(marker, t[2]))
                 IN  /\ t[1] \in DOMAIN point.tags <=> ~n.nan
                     /\ t[1] \in DOMAIN point.tags => point.tags[t[1]] = n.n

\* the marker with Fzg = "abc" was written without a vehicle tag, with its
\* route
C9_Witness ==
    /\ Written
    /\ version = "v3"
    /\ Get(marker, "Fzg") = <<"a", "b", "c">>
    /\ "vehicle" \notin DOMAIN point.tags
    /\ "route" \in DOMAIN point.tags
    /\ point.tags["route"] = 5

\* C10: every flag is in the point, and is true exactly when the upstream
\* field is the true-marker: 'true' in the JSON script, 'J' in the XML ones.
C10_Flags ==
    Written =>
        IF version = "v3"
        THEN /\ {"wifi", "active"} \subseteq DOMAIN point.tags
             /\ point.tags["wifi"] = (Get(marker, "Wifi") = StrTrue)
             /\ point.tags["active"] = (Get(marker, "aktiv") = StrTrue)
        ELSE /\ {"ac", "wifi"} \subseteq DOMAIN point.fields
             /\ point.fields["ac"] = (Get(marker, "ac") = StrJ)
             /\ point.fields["wifi"] = (Get(marker, "wifi") = StrJ)

\* a marker without Wifi and with aktiv = 'true' was written with
\* wifi = false and active = true
C10_Witness ==
    /\ Written
    /\ version = "v3"
    /\ "Wifi" \notin DOMAIN marker
    /\ point.tags["wifi"] = FALSE
    /\ point.tags["active"] = TRUE

-----------------------------------------------------------------------------
(* Properties of the poll loop *)

\* the writes of cycle c, by position in writes
WritesOf(c) == {i \in DOMAIN writes : writes[i].cycle = c}

\* the writes of cycle c for the marker at index k
WritesFor(c, k) == {i \in WritesOf(c) : writes[i].idx = k}

\* C1, as claimed: once the write of one marker has failed, the write of
\* every other marker of the batch has been issued and can still settle -
\* the process has not ended with a sibling outstanding.  (Batches whose
\* markers all normalize.)
C1_FailedWriteSparesSiblings ==
    \A i \in WritesOf(cycle) :
       (writes[i].status = "failed"
            /\ MapOutcome(MapResults(version, markers)) = "returned") =>
          \A k \in (1..Len(markers)) \ {writes[i].idx} :
             /\ WritesFor(cycle, k) # {}
             /\ \A j \in WritesFor(cycle, k) :
                   writes[j].status = "pending" => Running

\* C1, amended: a failed write never keeps a sibling from being issued -
\* every write markers.map gets to is issued before any settles; under the
\* first script the process stays alive, so each outstanding sibling can
\* still settle; under the other two the failure ends the process.
C1_FailedWriteByPolicy ==
    \A i \in WritesOf(cycle) :
       writes[i].status = "failed" =>
          /\ \A k \in 1..(FirstBad(MapResults(version, markers)) - 1) :
                WritesFor(cycle, k) # {}
          /\ IF version = "v1"
             THEN Running /\ exitCode = 0 - 1
             ELSE pc = "exit" /\ exitCode = 1

\* under the first script a cycle ended with one write failed and its
\* sibling written
C1_Witness ==
    /\ version = "v1"
    /\ pc = "sleep"
    /\ Len(markers) = 2
    /\ \E i, j \in WritesOf(cycle) :
          /\ writes[i].status = "failed"
          /\ writes[j].status = "ok"

\* C2: once a cycle has completed (the loop sleeps or has begun a later
\* cycle), no write issued by that cycle is outstanding.
C2_NoWriteOutstandingAfterCycle ==
    \A i \in DOMAIN writes :
       (writes[i].cycle < cycle \/ (writes[i].cycle = cycle /\ pc = "sleep"))
       => writes[i].status # "pending"

\* a marker with a malformed field: a status string that is free text or
\* missing, or a coordinate that is no number
Malformed(ver, m) ==
    \/ StatusOf(ver, m) = Undefined
    \/ /\ ~startsWith(StatusOf(ver, m), StrAb)
       /\ ~RegexExec(StatusOf(ver, m)).matched
    \/ parseFloat(Get(m, "lat")).kind = "nan"
    \/ parseFloat(Get(m, "lng")).kind = "nan"

\* the catch block of the cycle has run
CycleReportedFailed == log \cap {"ERROR: ", "error"} # {}

\* C3: after markers.map, whatever marker of the batch is malformed, every
\* other marker has exactly one write and the cycle is not reported failed.
C3_MalformedMarkerSparesSiblings ==
    (pc \in {"Promise.all", "sleep", "exit"} /\ markers # <<>>) =>
        \A j \in 1..Len(markers) :
           Malformed(version, markers[j]) =>
              /\ \A k \in (1..Len(markers)) \ {j} :
                    Cardinality(WritesFor(cycle, k)) = 1
              /\ ~CycleReportedFailed

-----------------------------------------------------------------------------
(* Properties of the bootstrap, the fetch and the decoding *)

\* v is one digit or more
AllDigits(v) ==
    /\ v # Undefined
    /\ v # <<>>
    /\ \A i \in 1..Len(v) : v[i] \in DigitChars

\* the page holds both "var request = <digits>;" and "var state = <digits>;"
HasBothAssignments(f) == AllDigits(f.request) /\ AllDigits(f.state)

\* the form a landing page was rendered from
PageFormOf(h) == CHOOSE f \in PageForms : Render(f) = h

\* the catch block of the cycle has run and the cycle is over
Aborted == CycleReportedFailed /\ pc \in {"sleep", "exit"}

\* C11: on a landing page that holds both assignments parseIds returns the
\* two digit strings; when either assignment is missing parseIds fails, and
\* in that cycle no POST and no write is issued.
C11_ParseIds ==
    \A f \in PageForms :
       html = Render(f) =>
          IF HasBothAssignments(f)
          THEN ids = [requestId |-> f.request, stateId |-> f.state]
          ELSE /\ ids = NoIds
               /\ CycleReportedFailed
               /\ posts = <<>>
               /\ WritesOf(cycle) = {}

\* a cycle that ended on a page without the state assignment
C11_Witness ==
    /\ html = Render([request |-> <<"1", "2", "3">>, state |-> Undefined])
    /\ Aborted
    /\ posts = <<>>

\* the GET was rejected or the page holds no pair of tokens
BootstrapFailed ==
    \/ html = RequestError
    \/ html \in Pages /\ ~HasBothAssignments(PageFormOf(html))

\* the POST was rejected
FetchFailed == body.kind = "RequestError"

\* the body is no text of the format, lacks the marker collection, or is
\* no sequence of markers
DecodeFailed == body.kind \in {"invalid", "nocollection", "single"}

\* C13: in every script a cycle whose bootstrap, fetch or decoding fails
\* is aborted: the steps after the failing one are not taken and no write
\* is issued in that cycle.
C13_EarlyAbort ==
    /\ BootstrapFailed =>
          /\ Aborted
          /\ posts = <<>>
          /\ body = NoBody
          /\ markers = <<>>
          /\ WritesOf(cycle) = {}
    /\ (FetchFailed \/ DecodeFailed) =>
          /\ Aborted
          /\ markers = <<>>
          /\ WritesOf(cycle) = {}

\* the second script sleeping after a body that is no XML
C13_Witness ==
    /\ version = "v2"
    /\ body.kind = "invalid"
    /\ pc = "sleep"
    /\ WritesOf(cycle) = {}

\* C15: a cycle issues at most one GET and at most one POST, and the POST
\* carries as request and state the requestId and stateId of the landing
\* page fetched in that same cycle.
C15_OneGetOnePostOwnTokens ==
    /\ gets <= 1
    /\ Len(posts) <= 1
    /\ posts # <<>> =>
          /\ html \in Pages
          /\ posts[1] = [request |-> PageFormOf(html).request,
                         state |-> PageFormOf(html).state]

\* the second cycle posting the tokens of its own page
C15_Witness ==
    /\ cycle = 2
    /\ html = Render([request |-> <<"7">>, state |-> <<"4", "5", "6">>])
    /\ posts = <<[request |-> <<"7">>, state |-> <<"4", "5", "6">>]>>
    /\ pc = "callApi"

\* C12: under the first script, with every request and write settling, a
\* cycle that has begun always reaches its sleep, whatever failed in it,
\* and the sleep is followed by the next cycle; nothing that happens in a
\* cycle ends the process or stops the loop.  (The last cycle explored
\* has no successor.)
C12_LoopGoesOn ==
    /\ []((version = "v1" /\ cycle >= 1) => (Running /\ exitCode = 0 - 1))
    /\ (version = "v1" /\ cycle >= 1 /\ pc # "sleep") ~> (pc = "sleep")
    /\ (version = "v1" /\ pc = "sleep" /\ cycle < MaxCycles) ~> (pc = "rp")

\* the first script in its second cycle while a write of the first, whose
\* normalization threw, is still outstanding
C12_Witness ==
    /\ version = "v1"
    /\ cycle = 2
    /\ pc = "rp"
    /\ \E i \in DOMAIN writes : writes[i].cycle = 1

\* the place of a position of main() in the order of a cycle's steps
Rank(p) ==
    CASE p = "rp" -> 1
      [] p = "callApi" -> 2
      [] p = "Promise.all" -> 3
      [] p = "sleep" -> 4
      [] OTHER -> 5

\* C14: cycles do not overlap and their steps come in order - a cycle
\* begins with its bootstrap, from the start-up or from the sleep of the
\* cycle before; within a cycle main() only moves forward through
\* bootstrap, fetch, decoding with normalizing and writing, and sleep; the
\* sleep that follows the writing begins only when every write of the
\* cycle has settled; writes are issued by the current cycle only.
C14_CyclesInSequence ==
    [][/\ cycle' # cycle =>
             /\ cycle' = cycle + 1
             /\ pc' = "rp"
             /\ IF cycle = 0
                THEN pc \in {"getDatabaseNames", "createDatabase"}
                ELSE pc = "sleep"
       /\ (cycle' = cycle /\ cycle >= 1 /\ pc' # pc) => Rank(pc) < Rank(pc')
       /\ (pc = "Promise.all" /\ pc' = "sleep") =>
             \A i \in WritesOf(cycle) : writes[i].status # "pending"
       /\ Len(writes') > Len(writes) =>
             /\ pc = "callApi"
             /\ cycle' = cycle
             /\ \A i \in (Len(writes) + 1)..Len(writes') :
                   writes'[i].cycle = cycle]_vars

\* part_000 in its second cycle: the first one ran through all its steps
C14_Witness ==
    /\ version = "v3"
    /\ cycle = 2
    /\ pc = "Promise.all"
    /\ WritesOf(cycle) # {}

\* C16: the check for the database is made once, before the first cycle;
\* createDatabase is called at most once and only when the name was not
\* listed; when the check fails no cycle is ever started.
C16_DatabaseCheckedFirst ==
    /\ (pc = "getDatabaseNames") <=> (dbNames = "unknown")
    /\ created <= 1
    /\ created = 1 <=> dbNames = "absent"
    /\ cycle >= 1 => dbNames \in {"listed", "absent"}
    /\ dbNames = "error" =>
          /\ cycle = 0
          /\ gets = 0
          /\ pc \in {"exit", "rejected"}

\* part_000 ended by a failed check
C16_Witness ==
    /\ version = "v3"
    /\ dbNames = "error"
    /\ pc = "exit"
    /\ exitCode = 1
    /\ cycle = 0

\* C18: under part_000 and the second script, once a write has failed the
\* process has ended with exit code 1; after the end no cycle is started
\* and no request or write is issued.
C18_FailedWriteEndsProcess ==
    /\ []((/\ version \in {"v2", "v3"}
           /\ \/ "Error saving data to InfluxDB!" \in log
              \/ \E i \in DOMAIN writes : writes[i].status = "failed")
          => (pc = "exit" /\ exitCode = 1))
    /\ [][pc = "exit" => UNCHANGED <<cycle, gets, posts, writes>>]_vars

\* part_000 ended by the failed write of the first of two markers
C18_Witness ==
    /\ version = "v3"
    /\ pc = "exit"
    /\ exitCode = 1
    /\ \E i, j \in WritesOf(cycle) :
          /\ writes[i].status = "failed"
          /\ writes[j].status = "pending"

\* the writes of cycle c, in the order they were issued
WriteSeq(c) == SelectSeq(writes, LAMBDA w : w.cycle = c)

\* C19: in a cycle whose bootstrap, fetch and decoding succeed and whose
\* markers all normalize, there is one write per marker, issued in the
\* order of the markers, the i-th carrying the point of the i-th marker.
C19_OneWritePerMarkerInOrder ==
    LET results == MapResults(version, markers)
    IN  (/\ pc \in {"Promise.all", "sleep", "exit"}
         /\ body.kind = "markers"
         /\ MapOutcome(results) = "returned") =>
            /\ Len(WriteSeq(cycle)) = Len(markers)
            /\ \A i \in 1..Len(markers) :
                  /\ WriteSeq(cycle)[i].idx = i
                  /\ WriteSeq(cycle)[i].tags = results[i].tags
                  /\ WriteSeq(cycle)[i].fields = results[i].fields

\* part_000 after a batch of two different markers, both written
C19_Witness ==
    /\ version = "v3"
    /\ pc = "sleep"
    /\ Len(markers) = 2
    /\ markers[1] # markers[2]
    /\ "Job successful" \in log
    /\ \A i \in WritesOf(cycle) : writes[i].status = "ok"

-----------------------------------------------------------------------------
(* Properties of translateVehicleType and of the loop of fixLocation *)

\* the table of the vehicle types that are renamed
TypeTable ==
    { <<StrStrab, <<"t", "r", "a", "m">>>>,
      <<StrBus, <<"b", "u", "s">>>>,
      <<StrSchienenschleifzug,
        <<"r", "a", "i", "l", "g", "r", "i", "n", "d", "e", "r">>>> }

ExpectedType(t) ==
    IF \E e \in TypeTable : e[1] = t
    THEN (CHOOSE e \in TypeTable : e[1] = t)[2]
    ELSE t

\* C17: translateVehicleType gives tram for Strab, bus for Bus, railgrinder
\* for Schienenschleifzug and its argument for anything else, missing
\* included; the type tag of every point part_000 writes is that value for
\* the marker's Typ.
C17_TypeTag ==
    /\ \A e \in TypeTable : translateVehicleType(e[1]) = e[2]
    /\ (Written /\ version = "v3") =>
          /\ "type" \in DOMAIN point.tags
          /\ point.tags["type"] = ExpectedType(Get(marker, "Typ"))
          /\ point.tags["type"] = translateVehicleType(Get(marker, "Typ"))

\* a rail grinder has been written
C17_Witness ==
    /\ Written
    /\ version = "v3"
    /\ Get(marker, "Typ") = StrSchienenschleifzug
    /\ point.tags["type"] =
          <<"r", "a", "i", "l", "g", "r", "i", "n", "d", "e", "r">>

\* C20: fixLocation ends for every input that parses as a number: its loop
\* is never at a value, with the condition true, that the body leaves as it
\* is - from such a value the loop has no way out.
C20_FixLocationLoopExits ==
    ~(/\ fpc = "fix:while"
      /\ ordinateIn.kind = "num"
      /\ FixLoopCond(ordinate)
      /\ Times10(ordinate) = ordinate)

-----------------------------------------------------------------------------
(* The schema of the sink and the messages of a cycle, in part_000 *)

\* schema[0].fields of new Influx.InfluxDB({...})
SchemaFields == {"lat", "long", "delay"}

\* schema[0].tags
SchemaTags == {"vehicle", "route", "trip", "ac", "wifi", "destination",
               "type", "headsign", "activ"}

\* C21: every tag key and every field key of a point part_000 writes is
\* declared in the schema of the measurement.
C21_KeysDeclared ==
    (Written /\ version = "v3") =>
        /\ DOMAIN point.tags \subseteq SchemaTags
        /\ DOMAIN point.fields \subseteq SchemaFields

\* C22: part_000 logs 'Job successful: stored N markers' for a cycle only
\* when each of the N markers of the cycle has a write and every one of
\* them succeeded; the message never comes with a failure of the bootstrap,
\* the fetch, the decoding, the normalizing or a write in that cycle.
C22_SuccessOnlyAfterAllWrites ==
    "Job successful" \in log =>
        /\ version = "v3"
        /\ Len(WriteSeq(cycle)) = Len(markers)
        /\ \A i \in WritesOf(cycle) : writes[i].status = "ok"
        /\ ~BootstrapFailed
        /\ ~FetchFailed
        /\ ~DecodeFailed
        /\ MapOutcome(MapResults(version, markers)) = "returned"
        /\ ~CycleReportedFailed
        /\ "Error saving data to InfluxDB!" \notin log
        /\ exitCode = 0 - 1

\* part_000 has logged the success of its second cycle, of one marker
C22_Witness ==
    /\ version = "v3"
    /\ cycle = 2
    /\ "Job successful" \in log
    /\ Len(markers) = 1
    /\ Len(WriteSeq(cycle)) = 1

=============================================================================
